---- MODULE Spec2Model ----
(***************************************************************************)
(* Model of the chat demo: the Express/Mongo server (chattyv3/server.ts),  *)
(* the store client DB (db.js), the polling Refresher (Refresher.js) and   *)
(* the Terminal interpreter (terminal.js).  Texts are strings, handled     *)
(* character by character with Len, SubSeq and \o.                         *)
(***************************************************************************)
EXTENDS Integers, Sequences, FiniteSets, TLC

VARIABLES
    net,         \* GET /msg/... requests in flight to the server
    nposts,      \* number of DB.postMsg calls issued so far
    clock,       \* the server's clock (new Date())
    saving,      \* documents whose mutation.save() is in progress
    store,       \* the collection: the saved documents, by ascending time
    msgLogs,     \* ChatRoom.msgLogs
    logsReq,     \* GET /logs requests in flight to the server
    responses,   \* /logs responses in flight to the Refresher, as sent
    currDepth,   \* Refresher.currDepth
    contentBox,  \* the children the Refresher appended to its contentBox
    user,        \* Terminal.user
    _path,       \* Terminal._path
    cwd,         \* Terminal.cwd (undefined until first written: falsy)
    _buffer,     \* Terminal._buffer
    _stdin,      \* the value of the textarea Terminal._stdin
    _stdout,     \* the innerHTML of Terminal._stdout
    style,       \* the style of _stdout and the filter of the document element
    _Commands,   \* Terminal._Commands, its properties in order
    timers,      \* setTimeout callbacks of _takeInput not yet run
    clearTimers, \* setTimeout callbacks of the alias button not yet run
    typed,       \* the keys the user has typed so far
    ops,         \* other things done to the page so far
    calls,       \* the DB.postMsg calls of the Terminal: (alias, content, at)
    interpreted, \* the textarea as the latest callback of _takeInput left it
    seenText     \* the textarea at the latest keydown _takeInput let through

storeVars == <<clock, saving, store, msgLogs, logsReq, responses, currDepth,
               contentBox>>

syncVars == <<net, nposts, storeVars>>

termVars == <<user, _path, cwd, _buffer, _stdin, _stdout, style, _Commands,
              timers, clearTimers, typed, ops, calls, interpreted,
              seenText>>

vars == <<syncVars, termVars>>

-----------------------------------------------------------------------------
(* Bounds of the model. *)

\* DB.postMsg calls the clients make in one behaviour.
MaxPosts == 2
\* /logs fetches outstanding at once (ticks that overlap).
MaxFetch == 2
\* Documents already in the collection when the server starts.
Backlog == 499
\* setTimeout callbacks of _takeInput pending at once.
MaxTimers == 2
\* Modifier keys, clicks and addCommand calls in one behaviour.
MaxOps == 1

(* Program constants. *)

\* refreshLogs(500)
FetchDepth == 500

-----------------------------------------------------------------------------
(* Strings. *)

Min(S) == CHOOSE x \in S : \A y \in S : x <= y

Char(s, i) == SubSeq(s, i, i)

\* F applied to the value of v, which is computed once.
Bind(v, F(_)) == CHOOSE out \in { F(x) : x \in {v} } : TRUE

\* String.prototype.indexOf(t, from), 1-based; 0 when t does not occur.
IndexOf(s, t, from) ==
    IF Len(t) = 0 THEN from
    ELSE Bind({ i \in from..(Len(s) - Len(t) + 1) :
                  /\ Char(s, i) = Char(t, 1)
                  /\ SubSeq(s, i, i + Len(t) - 1) = t },
              LAMBDA cands : IF cands = {} THEN 0 ELSE Min(cands))

\* String.prototype.includes
Includes(s, t) == IndexOf(s, t, 1) # 0

\* String.prototype.replace(t, r) with a string pattern: the first occurrence only.
ReplaceFirst(s, t, r) ==
    Bind(IndexOf(s, t, 1),
         LAMBDA i : IF i = 0 THEN s
                    ELSE SubSeq(s, 1, i - 1) \o r
                         \o SubSeq(s, i + Len(t), Len(s)))

\* String.prototype.replace(/t/g, r): every occurrence, left to right.
RECURSIVE ReplaceAll(_, _, _)
ReplaceAll(s, t, r) ==
    Bind(IndexOf(s, t, 1),
         LAMBDA i : IF i = 0 THEN s
                    ELSE SubSeq(s, 1, i - 1) \o r
                         \o ReplaceAll(SubSeq(s, i + Len(t), Len(s)), t, r))

Lower == {"a","b","c","d","e","f","g","h","i","j","k","l","m",
          "n","o","p","q","r","s","t","u","v","w","x","y","z"}
Upper == {"A","B","C","D","E","F","G","H","I","J","K","L","M",
          "N","O","P","Q","R","S","T","U","V","W","X","Y","Z"}
Digit == {"0","1","2","3","4","5","6","7","8","9"}

UpperSeq == "ABCDEFGHIJKLMNOPQRSTUVWXYZ"
LowerSeq == "abcdefghijklmnopqrstuvwxyz"

\* String.prototype.toLowerCase on one character.
LowerChar(c) ==
    IF c \in Upper THEN Char(LowerSeq, IndexOf(UpperSeq, c, 1)) ELSE c

\* The string of F(c) for the characters c of s, in order.
MapChars(s, F(_)) ==
    LET RECURSIVE from(_)
        from(i) == IF i > Len(s) THEN "" ELSE F(Char(s, i)) \o from(i + 1)
    IN  from(1)

toLowerCase(s) == MapChars(s, LowerChar)

-----------------------------------------------------------------------------
(* db.js: the Message Store Client. *)

\* one character of s.replace(/[^a-z0-9]/gi, "_")
SafeChar(c) == IF c \in Lower \cup Upper \cup Digit THEN c ELSE "_"

urlSafe(s) == toLowerCase(MapChars(s, SafeChar))

\* encodeURI leaves A-Z a-z 0-9 and ; , / ? : @ & = + $ - _ . ! ~ * ' ( ) #
\* alone and writes every other character as %XX.
UriKept == Lower \cup Upper \cup Digit \cup
           {";", ",", "/", "?", ":", "@", "&", "=", "+", "$",
            "-", "_", ".", "!", "~", "*", "'", "(", ")", "#"}

EncodeChar(c) ==
    IF c \in UriKept THEN c
    ELSE IF c = " " THEN "%20"
    ELSE IF c = "%" THEN "%25"
    ELSE IF c = "<" THEN "%3C"
    ELSE IF c = ">" THEN "%3E"
    ELSE IF c = "\"" THEN "%22"
    ELSE "%0A"

encodeURI(s) == MapChars(s, EncodeChar)

\* DB.postMsg(alias, content, at): the request it sends.
postMsg(alias, content, at, id) ==
    [id      |-> id,
     alias   |-> encodeURI(urlSafe(alias)),
     content |-> encodeURI(urlSafe(content)),
     at      |-> encodeURI(urlSafe(at))]

-----------------------------------------------------------------------------
(* server.ts *)

HexDigit == Digit \cup {"a","b","c","d","e","f","A","B","C","D","E","F"}

\* decodeURI throws URIError on a % that two hex digits do not follow.
Malformed(s) ==
    \E i \in 1..Len(s) :
        /\ Char(s, i) = "%"
        /\ ~ ( /\ i + 2 <= Len(s)
               /\ Char(s, i + 1) \in HexDigit
               /\ Char(s, i + 2) \in HexDigit )

\* The escapes decodeURI turns back into a character, among those
\* EncodeChar writes (%25 decodes to %; the reserved set stays escaped).
DecodeEscape(e) ==
    IF e = "%20" THEN " "
    ELSE IF e = "%25" THEN "%"
    ELSE IF e = "%3C" THEN "<"
    ELSE IF e = "%3E" THEN ">"
    ELSE IF e = "%22" THEN "\""
    ELSE IF e = "%0A" THEN "\n"
    ELSE IF e = "%41" THEN "A"
    ELSE e

\* decodeURI on a string that is not Malformed.
RECURSIVE decodeURI(_)
decodeURI(s) ==
    LET i == IndexOf(s, "%", 1)
    IN  IF i = 0 THEN s
        ELSE SubSeq(s, 1, i - 1) \o DecodeEscape(SubSeq(s, i, i + 2))
             \o decodeURI(SubSeq(s, i + 3, Len(s)))

\* ChatRoom.constructPost(req), then ChatRoom.update(record): the document
\* handed to mutation.save(), stamped with the server's clock.
update(req, now) ==
    [id      |-> req.id,
     time    |-> now,
     alias   |-> decodeURI(req.alias),
     content |-> decodeURI(req.content),
     at      |-> decodeURI(req.at)]

\* mutation.save(): the collection with doc in it (listed by ascending time,
\* the order sort({time: "asc"}) reads it in).
save(docs, doc) ==
    LET k == Cardinality({ i \in 1..Len(docs) : docs[i].time < doc.time })
    IN  SubSeq(docs, 1, k) \o <<doc>> \o SubSeq(docs, k + 1, Len(docs))

\* find({}).limit(depth).sort({time: "asc"}): the driver sorts, then limits,
\* which leaves the depth oldest documents.
find(docs, depth) ==
    SubSeq(docs, 1, IF Len(docs) < depth THEN Len(docs) ELSE depth)

-----------------------------------------------------------------------------
(* Refresher.js *)

\* Refresher's defaults: PS1 = "$", location = "".
PS1 == "$"
location == ""

\* The pieces of msgLine's template literal that hold no field of the
\* message: up to ${message.alias}, and from ":</span>" to "</span> ".
lineHead == "<span style=\"color: var(--secondary-text)\">"

lineMid ==
    ":</span><span style=\"color: var(--tertiary-text)\"" \o "\">" \o location
    \o "</span><span style=\"color: var(--primary-text)\">" \o PS1 \o "</span> "

\* msgLine(message): the div appended for one message (of: the message it
\* was made from).
msgLine(message) ==
    [of   |-> message,
     html |-> lineHead \o message.alias \o "@" \o message.at \o lineMid
              \o ReplaceFirst(message.content, "_", " ")]

\* One pass of the loop: the test of the while, then its body, which reads
\* this.currDepth anew: appendChild(msgLine(logs[messages[this.currDepth]]))
\* and this.currDepth += 1.
mergeStep(logs, r) ==
    IF Len(logs) > r.currDepth
    THEN [currDepth  |-> r.currDepth + 1,
          contentBox |-> Append(r.contentBox, msgLine(logs[r.currDepth + 1]))]
    ELSE r

\* n passes of the loop, one after the other; the loop is left at the
\* first pass whose test fails.
RECURSIVE mergePasses(_, _, _)
mergePasses(logs, r, n) ==
    IF n = 0 \/ Len(logs) <= r.currDepth THEN r
    ELSE IF n = 1 THEN mergeStep(logs, r)
    ELSE Bind(mergePasses(logs, r, n \div 2),
              LAMBDA half : mergePasses(logs, half, n - (n \div 2)))

\* A merge that renders the whole log it was handed, as if the count had
\* been captured at 0.
mergeLoopFromStart(logs, depth, box) ==
    mergePasses(logs, [currDepth |-> 0, contentBox |-> box], Len(logs))

\* A merge that ends with this.currDepth = messages.length.
mergeLoopAssigns(logs, depth, box) ==
    [currDepth  |-> Len(logs),
     contentBox |->
        mergePasses(logs, [currDepth |-> depth, contentBox |-> box],
                    Len(logs)).contentBox]

\* while (messages.length > this.currDepth) {...}: the test fails for good
\* after at most messages.length passes.
mergeLoop(logs, depth, box) ==
    mergePasses(logs, [currDepth |-> depth, contentBox |-> box], Len(logs))

-----------------------------------------------------------------------------
(* More of String.prototype, for terminal.js. *)

Max(S) == CHOOSE x \in S : \A y \in S : x >= y

\* Where t occurs in s.
Occurrences(s, t) ==
    { i \in 1..(Len(s) - Len(t) + 1) :
        /\ Char(s, i) = Char(t, 1)
        /\ SubSeq(s, i, i + Len(t) - 1) = t }

\* String.prototype.split(sep), sep not empty: the pieces between the
\* occurrences of sep, taken from left to right without overlap.
Split(s, sep) ==
    LET RECURSIVE pieces(_, _)
        pieces(occ, from) ==
            IF occ = {} THEN << SubSeq(s, from, Len(s)) >>
            ELSE LET i == Min(occ)
                 IN  << SubSeq(s, from, i - 1) >>
                     \o pieces({ j \in occ : j >= i + Len(sep) }, i + Len(sep))
    IN  pieces(Occurrences(s, sep), 1)

\* Array.prototype.join(sep)
RECURSIVE Join(_, _)
Join(parts, sep) ==
    IF Len(parts) = 0 THEN ""
    ELSE IF Len(parts) = 1 THEN parts[1]
    ELSE parts[1] \o sep \o Join(Tail(parts), sep)

\* s.replace(/t/g, r) for a pattern t without metacharacters.
ReplaceGlobal(s, t, r) == Join(Split(s, t), r)

WhiteSpace == {" ", "\n", "\t", "\r"}

\* String.prototype.trim
trim(s) ==
    LET ink == { i \in 1..Len(s) : Char(s, i) \notin WhiteSpace }
    IN  IF ink = {} THEN "" ELSE SubSeq(s, Min(ink), Max(ink))

\* String.prototype.substring(start, end), indices from 0, clamped.
substring(s, start, end) ==
    LET clamp(n) == IF n < 0 THEN 0 ELSE IF n > Len(s) THEN Len(s) ELSE n
        a == clamp(start)
        b == clamp(end)
    IN  IF a <= b THEN SubSeq(s, a + 1, b) ELSE SubSeq(s, b + 1, a)

\* message.split(" ")[0].trim()
FirstWord(s) == trim(Split(s, " ")[1])

\* Values a JavaScript expression of the interpreter can have.
Undefined == [t |-> "undefined", s |-> ""]
True == [t |-> "boolean", s |-> "true"]
Str(s) == [t |-> "string", s |-> s]
Function(src) == [t |-> "function", s |-> src]

\* ToBoolean
Truthy(v) == v.t \in {"boolean", "function"} \/ (v.t = "string" /\ v.s # "")

-----------------------------------------------------------------------------
(* terminal.js *)

\* Terminal's defaults.
DefaultUser == "alias"
_system == "ubuntu"
DefaultPath == "~"
_ps1 == "$"
usernameColor == "var(--secondary-text)"
pathColor == "var(--tertiary-text)"
ps1Color == "var(--primary-text)"

\* getPrompt() for this.user = usr and this._path = pth.
getPrompt(usr, pth) ==
    "<span style=\"color: " \o usernameColor \o "\">" \o usr \o "@" \o _system
    \o ":" \o "</span><span style=\"color: " \o pathColor \o "\">" \o pth
    \o "</span><span" \o " style=\"color: " \o ps1Color \o "\">" \o _ps1
    \o "</span>"

\* _parseArg(input, command, nargs); an undefined currText and an empty one
\* are both falsy.
_parseArg(usr, pth, input, command, nargs) ==
    Bind(Split(ReplaceGlobal(input, "<br />", ""), getPrompt(usr, pth)),
         LAMBDA currLine :
    Bind(IF Len(currLine) >= 2 THEN currLine[Len(currLine) - 1] ELSE "",
         LAMBDA currText :
        IF /\ currText # ""
           /\ Len(input) >= 2
           /\ Char(input, Len(input) - 1) = ">"
        THEN IF command = "decoded" THEN Str(trim(currText))
             ELSE IF Includes(currText, command)
                  THEN IF ~nargs THEN True
                       ELSE Str(trim(ReplaceFirst(currText, command, "")))
                  ELSE Undefined
        ELSE Undefined))

\* What a run of the command chain works on: the text handed from command
\* to command and the fields of the Terminal the commands write
\* (style: the style of _stdout and the filter of the document element).
\* thrown: an exception has ended the run.

\* style.background = v and style.color = v keep the old value when v is
\* not a colour CSS knows.
CssColors == {"red", "white", "black", "blue", "green"}

DefaultStyle == [background |-> "", color |-> "var(--primary-text)", filter |-> ""]

linebreak(usr, t) ==
    [t EXCEPT !.input =
        ReplaceGlobal(@, "\n", "<br />" \o getPrompt(usr, t._path) \o " ")]

\* const popPrompt = input.substring(0, input.length + 1 - this.getPrompt().length)
popPrompt(input, prompt) == substring(input, 0, Len(input) + 1 - Len(prompt))

\* An echo that tests its argument against undefined, not for truth.
echoOfEmpty(usr, t) ==
    Bind(_parseArg(usr, t._path, t.input, "echo", TRUE), LAMBDA echoArg :
        IF echoArg # Undefined
        THEN [t EXCEPT !.input =
                 popPrompt(@, getPrompt(usr, t._path)) \o "<br />" \o echoArg.s
                 \o "<br />    " \o getPrompt(usr, t._path) \o " "]
        ELSE t)

echo(usr, t) ==
    Bind(_parseArg(usr, t._path, t.input, "echo", TRUE), LAMBDA echoArg :
        IF Truthy(echoArg)
        THEN [t EXCEPT !.input =
                 popPrompt(@, getPrompt(usr, t._path)) \o "<br />" \o echoArg.s
                 \o "<br />    " \o getPrompt(usr, t._path) \o " "]
        ELSE t)

helpDialog ==
    "Example Commands:<br /><br />cd $LOCATION<br />color $COLOR<br />text $COLOR<br />darkmode<br />lightmode<br />echo $STRING"

help(usr, t) ==
    IF Truthy(_parseArg(usr, t._path, t.input, "help", FALSE))
    THEN [t EXCEPT !.input =
             popPrompt(@, getPrompt(usr, t._path)) \o "<br />" \o helpDialog
             \o "<br />" \o getPrompt(usr, t._path)]
    ELSE t

color(usr, t) ==
    Bind(_parseArg(usr, t._path, t.input, "color", TRUE), LAMBDA colorArg :
        IF Truthy(colorArg) /\ colorArg.s \in CssColors
        THEN [t EXCEPT !.style.background = colorArg.s]
        ELSE t)

text(usr, t) ==
    Bind(_parseArg(usr, t._path, t.input, "text", TRUE), LAMBDA colorArg :
        IF Truthy(colorArg) /\ colorArg.s \in CssColors
        THEN [t EXCEPT !.style.color = colorArg.s]
        ELSE t)

\* resetBg()
resetBg == [background |-> "var(--secondary-bg)", color |-> "var(--primary-text)",
            filter |-> "none"]

\* A theme that sets the mode each time, with no way back.
themeModeSets(usr, t, mode, filter) ==
    IF Truthy(_parseArg(usr, t._path, t.input, mode, FALSE))
    THEN [t EXCEPT !.style = [background |-> "white", color |-> "#121212",
                              filter |-> filter]]
    ELSE t

\* One of the two ifs of theme, for the keyword mode and its filter.
themeMode(usr, t, mode, filter) ==
    IF Truthy(_parseArg(usr, t._path, t.input, mode, FALSE))
    THEN IF t.style.background = "white"
         THEN [t EXCEPT !.style = resetBg]
         ELSE [t EXCEPT !.style = [background |-> "white", color |-> "#121212",
                                   filter |-> filter]]
    ELSE t

theme(usr, t) ==
    themeMode(usr,
              themeMode(usr, t, "lightmode", "brightness(1.1) greyscale(.2)"),
              "darkmode", "invert(1)")

\* A cd that makes its argument the whole path.
cdAssigns(usr, t) ==
    Bind(_parseArg(usr, t._path, t.input, "cd ", TRUE), LAMBDA chatArg :
        IF Truthy(chatArg)
        THEN [t EXCEPT !._path = "/" \o chatArg.s, !.cwd = TRUE]
        ELSE t)

cd(usr, t) ==
    Bind(_parseArg(usr, t._path, t.input, "cd ", TRUE), LAMBDA chatArg :
        IF Truthy(chatArg)
        THEN [t EXCEPT !._path = @ \o "/" \o chatArg.s, !.cwd = TRUE]
        ELSE t)

\* A transform a caller registers with addCommand, and its source text.
greetSource == "(input) => input.replace(\"hi\", \"hello\")"
greet(usr, t) == [t EXCEPT !.input = ReplaceFirst(@, "hi", "hello")]

\* this._Commands as the constructor builds it: the properties in the order
\* for...in and Object.keys list them.
BuiltinCommands ==
    << [name |-> "linebreak", val |-> Function("linebreak")],
       [name |-> "echo",      val |-> Function("echo")],
       [name |-> "help",      val |-> Function("help")],
       [name |-> "color",     val |-> Function("color")],
       [name |-> "text",      val |-> Function("text")],
       [name |-> "theme",     val |-> Function("theme")],
       [name |-> "cd",        val |-> Function("cd")] >>

\* Object.keys(this._Commands)
commandNames(cmds) == [k \in 1..Len(cmds) |-> cmds[k].name]

Names(cmds) == { cmds[k].name : k \in 1..Len(cmds) }

\* delete this._Commands[excludeCommand] for each excluded command.
Exclude(cmds, excluded) == SelectSeq(cmds, LAMBDA c : c.name \notin excluded)

\* this._Commands[command](input)
Call(f, usr, t) ==
    CASE f.s = "linebreak" -> linebreak(usr, t)
      [] f.s = "echo"      -> echo(usr, t)
      [] f.s = "help"      -> help(usr, t)
      [] f.s = "color"     -> color(usr, t)
      [] f.s = "text"      -> text(usr, t)
      [] f.s = "theme"     -> theme(usr, t)
      [] f.s = "cd"        -> cd(usr, t)
      [] OTHER             -> greet(usr, t)

\* for (const command in this._Commands) input = this._Commands[command](input);
\* calling a value that is not a function throws TypeError.
RECURSIVE runCommands(_, _, _, _)
runCommands(cmds, k, usr, t) ==
    IF k > Len(cmds) \/ t.thrown THEN t
    ELSE runCommands(cmds, k + 1, usr,
                     IF cmds[k].val.t = "function" THEN Call(cmds[k].val, usr, t)
                     ELSE [t EXCEPT !.thrown = TRUE])

\* The digit a character writes.
DigitVal(c) == CHOOSE n \in 0..9 : Char("0123456789", n + 1) = c

\* a < b for two integers written in canonical decimal form.
KeyLess(a, b) ==
    \/ Len(a) < Len(b)
    \/ /\ Len(a) = Len(b)
       /\ \E i \in 1..Len(a) :
             /\ SubSeq(a, 1, i - 1) = SubSeq(b, 1, i - 1)
             /\ DigitVal(Char(a, i)) < DigitVal(Char(b, i))

\* An integer index among property keys: the canonical decimal form of an
\* integer below 2^32 - 1. for...in and Object.keys list these keys first,
\* in ascending order, and the other string keys after them in the order
\* they were created.
IsIndexKey(s) ==
    /\ s # ""
    /\ \A i \in 1..Len(s) : Char(s, i) \in Digit
    /\ Len(s) = 1 \/ Char(s, 1) # "0"
    /\ KeyLess(s, "4294967295")

\* this._Commands[name] = commandExecutor: a property that exists keeps its
\* place, a new one goes last among the string keys or to its place among
\* the integer indices; a key that is not a string is turned into one.
ToKey(v) == v.s
setCommand(cmds, key, val) ==
    IF ToKey(key) \in Names(cmds)
    THEN [k \in 1..Len(cmds) |->
             IF cmds[k].name = ToKey(key) THEN [name |-> ToKey(key), val |-> val]
             ELSE cmds[k]]
    ELSE IF IsIndexKey(ToKey(key))
    THEN Bind(Cardinality({ k \in 1..Len(cmds) :
                              /\ IsIndexKey(cmds[k].name)
                              /\ KeyLess(cmds[k].name, ToKey(key)) }),
              LAMBDA before :
                 SubSeq(cmds, 1, before)
                 \o << [name |-> ToKey(key), val |-> val] >>
                 \o SubSeq(cmds, before + 1, Len(cmds)))
    ELSE Append(cmds, [name |-> ToKey(key), val |-> val])

\* addCommand = (commandExecutor, name) => {...}
addCommand(cmds, commandExecutor, name) == setCommand(cmds, name, commandExecutor)

\* The callback _takeInput hands to setTimeout, run on the Terminal in
\* state T = [stdin, stdout, user, _path, cwd, style, cmds]: the fields it
\* leaves and the DB.postMsg calls it makes (posts).
deferred(T) ==
    Bind(runCommands(T.cmds, 1, T.user,
                     [input |-> T.stdin, _path |-> T._path, cwd |-> T.cwd,
                      style |-> T.style, thrown |-> FALSE]),
         LAMBDA t :
    Bind([_path |-> t._path, cwd |-> t.cwd, style |-> t.style,
          stdout |-> T.stdout, stdin |-> T.stdin, posts |-> <<>>],
         LAMBDA after :
    Bind(IF Truthy(_parseArg(T.user, t._path, t.input, "clear", FALSE)) \/ t.cwd
         THEN "" ELSE t.input,
         LAMBDA formatted :
    Bind(_parseArg(T.user, t._path, formatted, "decoded", FALSE),
         LAMBDA message :
        IF t.thrown THEN after
        ELSE IF Malformed(formatted)
        THEN [after EXCEPT
                !.stdout = getPrompt(T.user, t._path) \o " " \o formatted \o " "]
        ELSE [after EXCEPT
                !.stdout = getPrompt(T.user, t._path) \o " " \o formatted \o " ",
                !.stdin = decodeURI(formatted),
                !.posts = IF /\ Truthy(message)
                             /\ FirstWord(message.s) \notin Names(T.cmds)
                          THEN << [alias |-> T.user, content |-> message.s,
                                   at |-> t._path] >>
                          ELSE <<>>]))))

-----------------------------------------------------------------------------
(* Initial state. *)

\* A document saved before the server started.
OldDoc(i) == [id |-> i, time |-> i, alias |-> "al", content |-> "yo_yo_",
              at |-> "x"]

\* What clients post: (alias, content, at).
PostArgs == { <<"bob_1", "hi there", "team_x">> }

\* What clients post when the round trip through the store is followed:
\* aliases, contents and recipients of letters, digits and spaces.
RoundArgs ==
    { <<"bob", "hi there", "team x">>, <<"bob", "a b c", "x">>,
      <<"bob", "Hi", "x">> }

\* The _id of the n-th document created in this run.
NewId(n) == 1000 + n

InitSync ==
    /\ net = {}
    /\ nposts = 0
    /\ store \in { <<>>, [i \in 1..Backlog |-> OldDoc(i)] }
    /\ clock = Len(store) + 1
    /\ saving = {}
    /\ msgLogs = <<>>
    /\ logsReq = 0
    /\ responses = <<>>
    /\ currDepth = 0
    /\ contentBox = <<>>

\* What the user types, key by key ("\n" is Enter).
Scripts ==
    { "hi\nyo\n", "cd a\ncd b\n", "cd help\n", "need help\n", "lightmode\n",
      "darkmode\n", "echo hi\n", "echo\n", "help\n", "clear\n", "color red\n",
      "text red\n", "5%\n", "lightmode\nlightmode\n", "darkmode\ndarkmode\n",
      "color\n", "text\n", "cd\n", "hi\n>x" }

\* What the user enters as a new alias.
Aliases == { "bob" }

\* options.excludedCommands: none, or every command.
ExcludedChoices == { {}, Names(BuiltinCommands) }

\* The Terminal after new Terminal(node, options) and initialize().
InitTerm(excludedCommands) ==
    /\ user = DefaultUser
    /\ _path = DefaultPath
    /\ cwd = FALSE
    /\ _buffer = 0
    /\ seenText = ""
    /\ _stdin = ""
    /\ _stdout = getPrompt(DefaultUser, DefaultPath)
    /\ style = DefaultStyle
    /\ _Commands = Exclude(BuiltinCommands, excludedCommands)
    /\ timers = 0
    /\ clearTimers = 0
    /\ typed = ""
    /\ ops = 0
    /\ calls = <<>>
    /\ interpreted = ""

Init == InitSync /\ \E e \in ExcludedChoices : InitTerm(e)

-----------------------------------------------------------------------------
(* Actions of the store, the server and the Refresher. *)

\* Some client calls DB.postMsg(alias, content, at) with the arguments a;
\* calls keeps the arguments of every call, in the order of the calls.
Post(a) ==
    /\ nposts < MaxPosts
    /\ net' = net \cup {postMsg(a[1], a[2], a[3], NewId(nposts + 1))}
    /\ nposts' = nposts + 1
    /\ calls' = Append(calls, [alias |-> a[1], content |-> a[2], at |-> a[3]])
    /\ UNCHANGED <<clock, saving, store, msgLogs, logsReq, responses,
                   currDepth, contentBox>>
    /\ UNCHANGED <<user, _path, cwd, _buffer, seenText, _stdin, _stdout, style,
                   _Commands, timers, clearTimers, typed, ops, interpreted>>

ClientPost == \E a \in PostArgs : Post(a)

ClientPostRound == \E a \in RoundArgs : Post(a)

\* GET /msg/:alias/:content/:at: constructPost, update (save begins), res.send.
ServerMsg ==
    /\ \E req \in net :
         /\ net' = net \ {req}
         /\ saving' = saving \cup {update(req, clock)}
    /\ clock' = clock + 1
    /\ UNCHANGED <<nposts, store, msgLogs, logsReq, responses,
                   currDepth, contentBox>>
    /\ UNCHANGED termVars

\* mutation.save() completes.
SaveDone ==
    /\ \E doc \in saving :
         /\ saving' = saving \ {doc}
         /\ store' = save(store, doc)
    /\ UNCHANGED <<net, nposts, clock, msgLogs, logsReq, responses,
                   currDepth, contentBox>>
    /\ UNCHANGED termVars

\* A save that rejects and has the request sent again.
SaveFailRetries ==
    /\ \E doc \in saving :
         /\ saving' = saving \ {doc}
         /\ net' = net \cup {[id |-> doc.id, alias |-> doc.alias,
                               content |-> doc.content, at |-> doc.at]}
    /\ UNCHANGED <<nposts, clock, store, msgLogs, logsReq, responses,
                   currDepth, contentBox>>
    /\ UNCHANGED termVars

\* mutation.save() rejects: update(post).catch(err => console.log(err)).
SaveFail ==
    /\ \E doc \in saving : saving' = saving \ {doc}
    /\ UNCHANGED <<net, nposts, clock, store, msgLogs, logsReq, responses,
                   currDepth, contentBox>>
    /\ UNCHANGED termVars

Outstanding == logsReq + Len(responses)

\* The setInterval callback: DB.getLogs() sends GET /logs.
Tick ==
    /\ Outstanding < MaxFetch
    /\ logsReq' = logsReq + 1
    /\ UNCHANGED <<net, nposts, clock, saving, store, msgLogs, responses,
                   currDepth, contentBox>>
    /\ UNCHANGED termVars

\* GET /logs: this.refreshLogs(500).then(() => res.json(this.msgLogs)).
\* refreshLogs runs the query, whose exec callback sets this.msgLogs; its
\* await is on what exec(callback) returns, so res.json(this.msgLogs) runs
\* either after that callback or before it, with the msgLogs of the query
\* before.
ServerLogs ==
    /\ logsReq > 0
    /\ logsReq' = logsReq - 1
    /\ msgLogs' = find(store, FetchDepth)
    /\ \E sent \in {msgLogs, msgLogs'} :
         responses' = Append(responses, sent)
    /\ UNCHANGED <<net, nposts, clock, saving, store, currDepth, contentBox>>
    /\ UNCHANGED termVars

\* s without its i-th element.
Remove(s, i) == SubSeq(s, 1, i - 1) \o SubSeq(s, i + 1, Len(s))

\* DB.getLogs().then((logs) => {...}): the merge of one response, whichever
\* arrives next.
Deliver(i) ==
    /\ i \in 1..Len(responses)
    /\ responses' = Remove(responses, i)
    /\ UNCHANGED <<net, nposts, clock, saving, store, msgLogs, logsReq>>
    /\ \E r \in {mergeLoop(responses[i], currDepth, contentBox)} :
          /\ currDepth' = r.currDepth
          /\ contentBox' = r.contentBox
    /\ UNCHANGED termVars

\* A failed fetch handled by wiping what was rendered.
FetchFailResets ==
    /\ \/ /\ logsReq > 0
          /\ logsReq' = logsReq - 1
          /\ UNCHANGED responses
       \/ /\ \E i \in 1..Len(responses) : responses' = Remove(responses, i)
          /\ UNCHANGED logsReq
    /\ currDepth' = 0
    /\ contentBox' = <<>>
    /\ UNCHANGED <<net, nposts, clock, saving, store, msgLogs>>
    /\ UNCHANGED termVars

\* A fetch fails (the request or its response is lost): getLogs() rejects
\* and the then-callback does not run.
FetchFail ==
    /\ \/ /\ logsReq > 0
          /\ logsReq' = logsReq - 1
          /\ UNCHANGED responses
       \/ /\ \E i \in 1..Len(responses) : responses' = Remove(responses, i)
          /\ UNCHANGED logsReq
    /\ UNCHANGED <<net, nposts, clock, saving, store, msgLogs, currDepth,
                   contentBox>>
    /\ UNCHANGED termVars

SyncNext ==
    \/ ClientPost
    \/ ServerMsg
    \/ SaveDone
    \/ SaveFail
    \/ Tick
    \/ ServerLogs
    \/ \E i \in 1..Len(responses) : Deliver(i)
    \/ FetchFail

\* The same, with clients that post any of RoundArgs.
RoundNext ==
    \/ ClientPostRound
    \/ ServerMsg
    \/ SaveDone
    \/ SaveFail
    \/ Tick
    \/ ServerLogs
    \/ \E i \in 1..Len(responses) : Deliver(i)
    \/ FetchFail

-----------------------------------------------------------------------------
(* Actions of the Terminal and of the page around it (index.js). *)

\* The keys the user has left to type: typed goes on as one of the Scripts.
NextKeys ==
    { Char(s, Len(typed) + 1) :
        s \in { x \in Scripts : /\ Len(x) > Len(typed)
                                /\ SubSeq(x, 1, Len(typed)) = typed } }

\* A _takeInput that leaves the directory-changed flag as the last run set it.
_takeInputKeepsFlag ==
    IF Len(_stdin) = _buffer
    THEN UNCHANGED <<_buffer, seenText, cwd, timers>>
    ELSE /\ timers < MaxTimers
         /\ _buffer' = Len(_stdin)
         /\ seenText' = _stdin
         /\ UNCHANGED cwd
         /\ timers' = timers + 1

\* _takeInput up to its setTimeout: the listener of keydown, which runs
\* before the key changes the textarea.
_takeInput ==
    IF Len(_stdin) = _buffer
    THEN UNCHANGED <<_buffer, seenText, cwd, timers>>
    ELSE /\ timers < MaxTimers
         /\ _buffer' = Len(_stdin)
         /\ seenText' = _stdin
         /\ cwd' = FALSE
         /\ timers' = timers + 1

\* The user presses a key that types k (Enter types "\n"): keydown, then
\* the character goes into the textarea.
KeyDown(k) ==
    /\ k \in NextKeys
    /\ _takeInput
    /\ _stdin' = _stdin \o k
    /\ typed' = typed \o k
    /\ UNCHANGED <<user, _path, _stdout, style, _Commands, clearTimers, ops,
                   calls, net, nposts>>
    /\ UNCHANGED <<storeVars, interpreted>>

\* The user presses a key that types nothing (Shift, Ctrl, ...): keydown only.
ModifierKey ==
    /\ ops < MaxOps
    /\ ops' = ops + 1
    /\ _takeInput
    /\ UNCHANGED <<user, _path, _stdin, _stdout, style, _Commands, clearTimers,
                   typed, calls, net, nposts>>
    /\ UNCHANGED <<storeVars, interpreted>>

\* The user selects the last character of the textarea and types k over
\* it: keydown, then k takes the place of the selection.
TypeOver(k) ==
    /\ ops < MaxOps
    /\ ops' = ops + 1
    /\ Len(_stdin) >= 1
    /\ _takeInput
    /\ _stdin' = SubSeq(_stdin, 1, Len(_stdin) - 1) \o k
    /\ UNCHANGED <<user, _path, _stdout, style, _Commands, clearTimers, typed,
                   calls, net, nposts>>
    /\ UNCHANGED <<storeVars, interpreted>>

\* One setTimeout callback of _takeInput runs, 20 ms after its keydown.
Run ==
    /\ timers > 0
    /\ timers' = timers - 1
    /\ \E r \in { deferred([stdin |-> _stdin, stdout |-> _stdout, user |-> user,
                            _path |-> _path, cwd |-> cwd, style |-> style,
                            cmds |-> _Commands]) } :
          /\ _path' = r._path
          /\ cwd' = r.cwd
          /\ style' = r.style
          /\ _stdout' = r.stdout
          /\ _stdin' = r.stdin
          /\ interpreted' = r.stdin
          /\ calls' = calls \o r.posts
          /\ nposts' = nposts + Len(r.posts)
          /\ net' = net \cup { postMsg(r.posts[j].alias, r.posts[j].content,
                                       r.posts[j].at, NewId(nposts + j)) :
                                 j \in 1..Len(r.posts) }
    /\ UNCHANGED <<user, _buffer, seenText, _Commands, clearTimers, typed, ops>>
    /\ UNCHANGED storeVars

\* A _clear() that does not call refresh().
_clearNoRefresh ==
    /\ _stdin' = ""
    /\ _stdout' = ""

\* _clear(), then refresh().
_clear ==
    /\ _stdin' = ""
    /\ _stdout' = getPrompt(user, _path)

\* A click on the X button that wipes the history window as well.
XButtonWipesHistory ==
    /\ ops < MaxOps
    /\ ops' = ops + 1
    /\ _clear
    /\ contentBox' = <<>>
    /\ UNCHANGED <<user, _path, cwd, _buffer, seenText, style, _Commands, timers,
                   clearTimers, typed, calls, net, nposts>>
    /\ UNCHANGED <<clock, saving, store, msgLogs, logsReq, responses,
                   currDepth, interpreted>>

\* A click on the X button of the terminal.
XButton ==
    /\ ops < MaxOps
    /\ ops' = ops + 1
    /\ _clear
    /\ UNCHANGED <<user, _path, cwd, _buffer, seenText, style, _Commands, timers,
                   clearTimers, typed, calls, net, nposts>>
    /\ UNCHANGED <<storeVars, interpreted>>

\* A click on the alias button: chatNode.user = newAlias now, _clear() in
\* 200 ms.
AliasButton(newAlias) ==
    /\ ops < MaxOps
    /\ ops' = ops + 1
    /\ user' = newAlias
    /\ clearTimers' = clearTimers + 1
    /\ UNCHANGED <<_path, cwd, _buffer, seenText, _stdin, _stdout, style, _Commands,
                   timers, typed, calls, net, nposts>>
    /\ UNCHANGED <<storeVars, interpreted>>

\* The 200 ms timer of the alias button fires.
AliasClear ==
    /\ clearTimers > 0
    /\ clearTimers' = clearTimers - 1
    /\ _clear
    /\ UNCHANGED <<user, _path, cwd, _buffer, seenText, style, _Commands, timers, typed,
                   ops, calls, net, nposts>>
    /\ UNCHANGED <<storeVars, interpreted>>

\* A caller registers greet under the name "greet": the arguments in the
\* order of the function's parameters, or in the order its JSDoc gives.
AddCommandArgs ==
    { <<Function(greetSource), Str("greet")>>,
      <<Str("greet"), Function(greetSource)>> }

AddCommand(first, second) ==
    /\ ops < MaxOps
    /\ ops' = ops + 1
    /\ _Commands' = addCommand(_Commands, first, second)
    /\ UNCHANGED <<user, _path, cwd, _buffer, seenText, _stdin, _stdout, style, timers,
                   clearTimers, typed, calls, net, nposts>>
    /\ UNCHANGED <<storeVars, interpreted>>

TermNext ==
    \/ \E k \in NextKeys : KeyDown(k)
    \/ ModifierKey
    \/ Run
    \/ XButton
    \/ \E a \in Aliases : AliasButton(a)
    \/ AliasClear
    \/ \E args \in AddCommandArgs : AddCommand(args[1], args[2])

Next == SyncNext \/ TermNext

Spec == Init /\ [][Next]_vars

\* The store, the server and the Refresher, beside a Terminal nobody uses.
InitIdle == InitSync /\ InitTerm({})

SpecSync == InitIdle /\ [][SyncNext]_vars

\* A store that starts empty, with clients that post any of RoundArgs.
InitRound ==
    /\ InitSync
    /\ store = <<>>
    /\ InitTerm({})

SpecRound == InitRound /\ [][RoundNext]_vars

\* The Terminal and its page over an empty store, with the requests the
\* Terminal sends left in flight.
InitPage ==
    /\ InitSync
    /\ store = <<>>
    /\ \E e \in ExcludedChoices : InitTerm(e)

SpecTerm == InitPage /\ [][TermNext]_vars

\* The Terminal with the built-in commands and a user who only types.
TypeNext ==
    \/ \E k \in NextKeys : KeyDown(k)
    \/ Run

InitType ==
    /\ InitSync
    /\ store = <<>>
    /\ InitTerm({})

SpecType == InitType /\ [][TypeNext]_vars

\* The whole page, the Terminal beside the Refresher and the server, with a
\* user who types one of PageScripts and clicks X, and no other client.
PageScripts == { "hi\n" }

PageKeys ==
    { k \in NextKeys :
        \E x \in PageScripts :
           /\ Len(x) > Len(typed)
           /\ SubSeq(x, 1, Len(typed) + 1) = typed \o k }

PageNext ==
    \/ \E k \in PageKeys : KeyDown(k)
    \/ Run
    \/ XButton
    \/ ServerMsg
    \/ SaveDone
    \/ SaveFail
    \/ Tick
    \/ ServerLogs
    \/ \E i \in 1..Len(responses) : Deliver(i)
    \/ FetchFail

SpecPage == InitType /\ [][PageNext]_vars

\* The Terminal and the server's /msg handler, with a user who types two
\* lines of plain text and nobody polling.
PostScripts == { "hi\nyo\n" }

PostKeys ==
    { k \in NextKeys :
        \E x \in PostScripts :
           /\ Len(x) > Len(typed)
           /\ SubSeq(x, 1, Len(typed) + 1) = typed \o k }

PostNext ==
    \/ \E k \in PostKeys : KeyDown(k)
    \/ Run
    \/ ServerMsg
    \/ SaveDone
    \/ SaveFail

SpecPost == InitType /\ [][PostNext]_vars

\* The Terminal with a user who types one of ClearScripts, clicks X and
\* changes the alias.
ClearScripts == { "cd a\ncd b\n", "echo hi\n" }

ClearKeys ==
    { k \in NextKeys :
        \E x \in ClearScripts :
           /\ Len(x) > Len(typed)
           /\ SubSeq(x, 1, Len(typed) + 1) = typed \o k }

ClearNext ==
    \/ \E k \in ClearKeys : KeyDown(k)
    \/ Run
    \/ XButton
    \/ \E a \in Aliases : AliasButton(a)
    \/ AliasClear

SpecClear == InitType /\ [][ClearNext]_vars

\* The Terminal and a caller that registers commands while the user types:
\* the arguments in the order of addCommand's parameters, under a new name,
\* under the name of a built-in command and under a name made of digits.
RegisterArgs ==
    { <<Function(greetSource), Str("greet")>>,
      <<Function(greetSource), Str("echo")>>,
      <<Function(greetSource), Str("1")>> }

Register == \E args \in RegisterArgs : AddCommand(args[1], args[2])

CmdScripts == { "hi\nyo\n" }

CmdKeys ==
    { k \in NextKeys :
        \E x \in CmdScripts : /\ Len(x) > Len(typed)
                              /\ SubSeq(x, 1, Len(typed) + 1) = typed \o k }

CmdNext ==
    \/ \E k \in CmdKeys : KeyDown(k)
    \/ Run
    \/ Register

SpecCmd == InitType /\ [][CmdNext]_vars

\* The Terminal with a user who types a line, corrects its last character,
\* presses keys that type nothing and clicks X.
EditScripts == { "hi\nyo\n" }

EditKeys ==
    { k \in NextKeys :
        \E x \in EditScripts : /\ Len(x) > Len(typed)
                               /\ SubSeq(x, 1, Len(typed) + 1) = typed \o k }

\* The characters the user types over a selection.
OverChars == { "o" }

Trigger ==
    \/ \E k \in EditKeys : KeyDown(k)
    \/ \E k \in OverChars : TypeOver(k)
    \/ ModifierKey

EditNext ==
    \/ Trigger
    \/ Run
    \/ XButton

SpecEdit == InitType /\ [][EditNext]_vars

\* The Terminal with a user who types a line for each command and clicks X,
\* beside the Refresher polling an empty store.
PathScripts ==
    { "cd a\ncd b\n", "echo hi\n", "help\n", "text red\n", "lightmode\n" }

PathKeys ==
    { k \in NextKeys :
        \E x \in PathScripts : /\ Len(x) > Len(typed)
                               /\ SubSeq(x, 1, Len(typed) + 1) = typed \o k }

PathNext ==
    \/ \E k \in PathKeys : KeyDown(k)
    \/ Run
    \/ XButton
    \/ Tick
    \/ ServerLogs
    \/ \E i \in 1..Len(responses) : Deliver(i)
    \/ FetchFail

SpecPath == InitType /\ [][PathNext]_vars

\* The timer keeps firing, and the server keeps answering; a fetch may fail,
\* but not every fetch does.
FairSync ==
    /\ InitIdle
    /\ [][SyncNext]_vars
    /\ WF_vars(Tick)
    /\ SF_vars(ServerLogs)
    /\ SF_vars(\E i \in 1..Len(responses) : Deliver(i))

-----------------------------------------------------------------------------
(* The claims about the synchronizer. *)

\* The lines msgLine makes of logs[from + 1], ..., logs[Len(logs)], in order.
Suffix(logs, from) ==
    [i \in 1..(Len(logs) - from) |-> msgLine(logs[from + i])]

\* C1: the merge of a fetched log L at rendered count n appends exactly
\* the lines of L[n], ..., L[|L|-1] in that order and sets the count to |L|
\* when |L| > n, and changes neither otherwise; so merging the same log
\* once more renders nothing new.  Stated of every log in flight, at the
\* count and transcript its delivery would find.
C1_MergeAppendsUnseenSuffix ==
    \A logs \in { responses[i] : i \in 1..Len(responses) } :
       \E r \in { mergeLoop(logs, currDepth, contentBox) } :
          /\ IF Len(logs) > currDepth
             THEN /\ r.currDepth = Len(logs)
                  /\ r.contentBox = contentBox \o Suffix(logs, currDepth)
             ELSE r = [currDepth |-> currDepth, contentBox |-> contentBox]
          /\ mergeLoop(logs, r.currDepth, r.contentBox) = r

\* A transcript with lines in it, and in flight both a log it has already
\* rendered in full and a longer one.
C1_Witness ==
    /\ currDepth >= 1
    /\ \E i \in 1..Len(responses) : Len(responses[i]) = currDepth
    /\ \E i \in 1..Len(responses) : Len(responses[i]) > currDepth

\* C2: the rendered count starts at 0, never decreases, is the number of
\* lines appended to the history transcript, and is at most the number of
\* messages in the store.
C2_RenderedCount ==
    /\ currDepth = 0
    /\ [](currDepth = Len(contentBox) /\ currDepth <= Len(store))
    /\ [][currDepth' >= currDepth]_vars

\* Lines rendered, fewer than the store holds, and a shorter log in flight.
C2_Witness ==
    /\ currDepth >= 1
    /\ currDepth < Len(store)
    /\ \E i \in 1..Len(responses) : Len(responses[i]) < currDepth

Ids(docs) == { docs[i].id : i \in 1..Len(docs) }

Rendered == { contentBox[i].of.id : i \in 1..Len(contentBox) }

\* C5: under fair ticks and fetches that eventually succeed, every message
\* saved in the store is eventually a line of the history transcript,
\* however many messages the store holds.
C5_EverySavedMessageRendered == []<>(Ids(store) \subseteq Rendered)

\* C6: with polls that overlap, whatever the order the responses arrive in,
\* a merge never moves the rendered count backward, and the history
\* transcript stays in store order (ascending time) with no entry twice.
C6_OverlappingPollsSafe ==
    /\ [][currDepth' >= currDepth]_vars
    /\ [](\A i \in 1..(Len(contentBox) - 1) :
              contentBox[i].of.time < contentBox[i + 1].of.time)

\* C11: a message posted with alias, content and at of letters, digits and
\* spaces is rendered, once fetched, with its content as it was posted; and
\* every message in the store has a time below the one the server stamps
\* next, so that a message posted from now on comes after it in the log.
C11_RoundTrip ==
    /\ \A i \in 1..Len(contentBox) :
          LET m == contentBox[i].of
          IN  m.id > NewId(0) =>
                 contentBox[i].html =
                    lineHead \o m.alias \o "@" \o m.at \o lineMid
                    \o calls[m.id - NewId(0)].content
    /\ \A i \in 1..Len(store) : store[i].time < clock

\* C12: a fetch that fails changes neither the rendered count nor the
\* history transcript, and leaves the poller free to issue the next fetch.
C12_FailedFetchRetried ==
    [][FetchFail => /\ UNCHANGED <<currDepth, contentBox>>
                    /\ Outstanding' < MaxFetch]_vars

\* Lines rendered, and in flight a request and a response with more lines:
\* either of the two can fail.
C12_Witness ==
    /\ currDepth >= 1
    /\ logsReq >= 1
    /\ \E i \in 1..Len(responses) : Len(responses[i]) > currDepth

-----------------------------------------------------------------------------
(* The claims about the interpreter. *)

\* What the user has typed since the last prompt the interpreter wrote
\* (all of the textarea when it holds no prompt).
CurrentLine ==
    LET parts == Split(_stdin, getPrompt(user, _path) \o " ")
    IN  parts[Len(parts)]

\* The input ends at a line boundary: the last key was Enter.
LineCompleted ==
    /\ Len(CurrentLine) >= 1
    /\ Char(CurrentLine, Len(CurrentLine)) = "\n"

\* The text of the line the user has completed.
LineText == trim(CurrentLine)

\* The words that invoke the built-in commands.
BuiltinWords ==
    {"echo", "help", "color", "text", "lightmode", "darkmode", "cd", "clear"}

\* C3: an input cycle that ends on a completed line of plain text (not
\* empty, one decodeURI accepts, its first word not a command name, not
\* suppressed by clear or cd) calls DB.postMsg(user, the line's text, path),
\* once; stated for the built-in commands and a user who only types.
C3_PlainLineForwarded ==
    [][( /\ Run
         /\ _Commands = BuiltinCommands
         /\ ops = 0
         /\ LineCompleted
         /\ LineText # ""
         /\ ~ Malformed(LineText)
         /\ FirstWord(LineText) \notin Names(_Commands)
         /\ ~ Includes(LineText, "clear")
         /\ ~ Includes(CurrentLine, "cd ") )
        => calls' = Append(calls, [alias |-> user, content |-> LineText,
                                   at |-> _path])]_vars

\* C4: an input cycle on a completed line that invokes a built-in command
\* (echo, help, color, text, lightmode, darkmode, cd, clear), with or
\* without an argument, calls DB.postMsg not at all.
C4_CommandsNotPersisted ==
    [][( /\ Run
         /\ _Commands = BuiltinCommands
         /\ LineCompleted
         /\ FirstWord(LineText) \in BuiltinWords )
        => calls' = calls]_vars

\* C7: a keydown at which the textarea is as long as _buffer records
\* schedules no run and changes neither the transcript, the session, the
\* flag nor the record, and posts nothing (the textarea gains the key, if
\* the key types one); and a modifier key pressed when a run has read the
\* textarea and nothing was typed since never has it interpreted again.
C7_Debounce ==
    /\ [][( /\ ModifierKey \/ \E k \in NextKeys : KeyDown(k)
            /\ Len(_stdin) = _buffer )
           => UNCHANGED <<timers, _stdout, user, _path, cwd, _buffer, style,
                          calls>>]_vars
    /\ [][(ModifierKey /\ _stdin = interpreted /\ timers = 0)
           => UNCHANGED <<timers, _buffer, cwd>>]_vars

\* C8: an input cycle on a completed line "cd s", s not empty, appends "/s"
\* to the path, once, and leaves the rendered line empty; so the lines
\* cd s1, ..., cd sn take the path p to p/s1/.../sn.
C8_CdAppendsSegment ==
    [][( /\ Run
         /\ _Commands = BuiltinCommands
         /\ LineCompleted
         /\ Len(LineText) > 3
         /\ SubSeq(LineText, 1, 3) = "cd " )
        => /\ _path' = _path \o "/" \o trim(SubSeq(LineText, 4, Len(LineText)))
           /\ _stdin' = ""
           /\ _stdout' = getPrompt(user, _path') \o "  "]_vars

\* The last line of a text that ends with Enter, for a textarea no command
\* has written a prompt into.
RawLine(s) ==
    LET lines == Split(s, "\n")
    IN  IF Len(lines) >= 2 /\ lines[Len(lines)] = ""
        THEN trim(lines[Len(lines) - 1]) ELSE ""

\* C9: with an empty command table an input cycle writes the raw input back
\* to the textarea and, after the prompt, to the transcript, changes neither
\* the session nor the style, and still posts a completed line of plain
\* text.
C9_EmptyTablePassThrough ==
    [][(Run /\ _Commands = << >>)
        => /\ _stdin' = _stdin
           /\ _stdout' = getPrompt(user, _path) \o " " \o _stdin \o " "
           /\ UNCHANGED <<user, _path, style>>
           /\ RawLine(_stdin) # "" =>
                 calls' = Append(calls, [alias |-> user, content |-> RawLine(_stdin),
                                         at |-> _path])]_vars

\* C10: addCommand(name, fn), the name first, makes name one of the command
\* names, bound to fn, and leaves the other entries of the table as they
\* were.
C10_AddCommandNameFirst ==
    [][AddCommand(Str("greet"), Function(greetSource))
        => /\ "greet" \in Names(_Commands')
           /\ \A k \in 1..Len(_Commands') :
                 _Commands'[k].name = "greet" => _Commands'[k].val = Function(greetSource)
           /\ \A k \in 1..Len(_Commands) :
                 _Commands[k].name # "greet" => _Commands'[k] = _Commands[k]]_vars

\* The style of a mode that is on, and the styles of the default theme: the
\* one the page starts with and the one resetBg() writes.
ModeStyle(mode) ==
    [background |-> "white", color |-> "#121212",
     filter |-> IF mode = "lightmode" THEN "brightness(1.1) greyscale(.2)"
                ELSE "invert(1)"]

DefaultTheme == {DefaultStyle, resetBg}

\* C13: an input cycle on the completed line lightmode (darkmode) turns
\* that mode on when the theme is the default, and puts the default back
\* when that mode is on: an odd number of invocations of one mode ends in
\* the mode, an even number in the default.
C13_ThemeToggle ==
    [][( /\ Run
         /\ _Commands = BuiltinCommands
         /\ LineCompleted
         /\ LineText \in {"lightmode", "darkmode"} )
        => /\ style \in DefaultTheme => style' = ModeStyle(LineText)
           /\ style = ModeStyle(LineText) => style' = resetBg]_vars

\* lightmode entered twice and interpreted, the default theme back.
C13_Witness ==
    /\ typed = "lightmode\nlightmode\n"
    /\ timers = 0
    /\ ops = 0
    /\ style = resetBg

\* C14: an input cycle on a completed line that is color, text, cd or echo
\* with no argument leaves the text as the line break alone makes it,
\* changes neither the style nor the path, does not set the
\* directory-changed flag, and raises no error (the text is written to the
\* transcript and back to the textarea).
C14_MissingArgumentIgnored ==
    [][( /\ Run
         /\ _Commands = BuiltinCommands
         /\ LineCompleted
         /\ LineText \in {"color", "text", "cd", "echo"} )
        => LET out == ReplaceGlobal(_stdin, "\n",
                                    "<br />" \o getPrompt(user, _path) \o " ")
           IN  /\ _stdout' = getPrompt(user, _path) \o " " \o out \o " "
               /\ _stdin' = out
               /\ UNCHANGED <<style, _path>>
               /\ cwd' = FALSE]_vars

\* cd entered with no argument and interpreted: the prompt is in the
\* textarea and the path is the one the Terminal started with.
C14_Witness ==
    /\ typed = "cd\n"
    /\ timers = 0
    /\ Includes(_stdin, getPrompt(user, _path))
    /\ _path = DefaultPath

\* C15: no step of the interpreter (a keydown, a run of the command chain,
\* _clear() and refresh()) changes the
\* rendered count or the lines of the history transcript, and no step of
\* the synchronizer or the server changes the session, the command table,
\* the textarea, _buffer or the interactive transcript.
C15_StatePartition ==
    [][ /\ TermNext => UNCHANGED <<currDepth, contentBox>>
        /\ SyncNext => UNCHANGED <<user, _path, _Commands, _stdin, _buffer,
                                   _stdout>> ]_vars

\* A line in the history transcript, a run of the command chain pending and
\* a response in flight.
C15_Witness ==
    /\ currDepth >= 1
    /\ timers >= 1
    /\ Len(responses) >= 1

\* C16: the input cycle that posts a line ends with the textarea and the
\* transcript written and the request still on its way, nothing saved yet;
\* and a save that fails sends no request again and leaves the session,
\* the transcripts, the textarea and the command table as a save that
\* succeeds leaves them: untouched.
C16_FireAndForget ==
    /\ [][(Run /\ calls' # calls)
           => /\ net' # net
              /\ UNCHANGED <<saving, store>>
              /\ _stdin' = interpreted'
              /\ timers' = timers - 1]_vars
    /\ [][(SaveFail \/ SaveDone)
           => UNCHANGED <<net, nposts, calls, user, _path, cwd, _buffer, _stdin,
                          _stdout, style, _Commands, timers, contentBox>>]_vars

\* Two lines posted, the save of the first failed and the second saved.
C16_Witness ==
    /\ Len(calls) = 2
    /\ calls[1].content = "hi"
    /\ calls[2].content = "yo"
    /\ timers = 0
    /\ net = {}
    /\ saving = {}
    /\ Ids(store) = {NewId(2)}

\* C17: _clear(), from the X button or from the timer of the alias button,
\* empties the textarea and leaves in the interactive transcript one
\* prompt, that of the current user and path, and changes neither the user,
\* the path nor the command table.
C17_ClearLeavesPrompt ==
    [][(XButton \/ AliasClear)
        => /\ _stdin' = ""
           /\ _stdout' = getPrompt(user', _path')
           /\ UNCHANGED <<user, _path, _Commands>>]_vars

\* After a cd and a change of alias, a cleared Terminal showing the prompt
\* of the new alias in the new path.
C17_Witness ==
    /\ user = "bob"
    /\ _path = "~/a"
    /\ clearTimers = 0
    /\ _stdin = ""
    /\ _stdout = getPrompt("bob", "~/a")

\* C18: with saves that complete in any order while the Refresher polls,
\* the history transcript is a prefix of the store's log by time: its i-th
\* line is the i-th message by time.
C18_TranscriptIsPrefixOfLog ==
    /\ Len(contentBox) <= Len(store)
    /\ \A i \in 1..Len(contentBox) : contentBox[i].of = store[i]

\* The distinct lines of plain text the user has completed: the lines of
\* typed that end with Enter, are not empty and do not start with the word
\* of a command.
PlainLines ==
    LET lines == Split(typed, "\n")
    IN  { trim(lines[i]) : i \in { j \in 1..(Len(lines) - 1) :
                                     /\ trim(lines[j]) # ""
                                     /\ FirstWord(trim(lines[j])) \notin BuiltinWords } }

\* C19: the calls of DB.postMsg are never more than the distinct lines of
\* plain text the user has completed.
C19_ForwardedAtMostOnce == Len(calls) <= Cardinality(PlainLines)

\* What the run now due would leave with the directory-changed flag down
\* when it starts.
RunWithFlagDown ==
    deferred([stdin |-> _stdin, stdout |-> _stdout, user |-> user,
              _path |-> _path, cwd |-> FALSE, style |-> style,
              cmds |-> _Commands])

\* C20: a run of the command chain suppresses its line because of the
\* directory-changed flag only when a cd took effect in that same run: a
\* flag left up by an earlier run changes nothing of what the run writes
\* and posts.
C20_FlagScopedToCycle ==
    [][Run => \E ref \in {RunWithFlagDown} :
                 /\ _stdout' = ref.stdout
                 /\ _stdin' = ref.stdin
                 /\ _path' = ref._path
                 /\ calls' = calls \o ref.posts]_vars

\* Two runs were pending at once, the first has run a cd and left the flag
\* up, and the second is about to run.
C20_Witness ==
    /\ cwd
    /\ timers > 0
    /\ _path # DefaultPath
    /\ typed = "cd a\n"

\* What the command chain makes of the textarea in the run now due.
ChainOut ==
    runCommands(_Commands, 1, user,
                [input |-> _stdin, _path |-> _path, cwd |-> cwd,
                 style |-> style, thrown |-> FALSE])

\* C21: the line a run writes to the textarea and, after the prompt, to the
\* transcript is empty when the completed line holds `clear` or the
\* directory-changed flag is up, and is the text the command chain produced
\* in every other case.
C21_FinalLine ==
    [][Run => \E t \in {ChainOut} :
              \E fmt \in { IF \/ LineCompleted /\ Includes(LineText, "clear")
                              \/ t.cwd
                           THEN "" ELSE t.input } :
                 /\ _stdin' = fmt
                 /\ _stdout' = getPrompt(user, _path') \o " " \o fmt \o " "]_vars

\* C22: the commands run in the order they were registered: a registration
\* puts the command last in the table, behind every command registered
\* before it, whatever its name, and every run calls every command of the
\* table.
C22_RegistrationOrder ==
    /\ [][\A args \in RegisterArgs :
             AddCommand(args[1], args[2]) =>
                /\ _Commands'[Len(_Commands')] =
                      [name |-> args[2].s, val |-> args[1]]
                /\ SubSeq(_Commands', 1, Len(_Commands') - 1) =
                      SelectSeq(_Commands, LAMBDA c : c.name # args[2].s)]_vars
    /\ [][Run => ~ChainOut.thrown]_vars

\* The text echo receives in the run now due: the textarea after linebreak.
EchoIn ==
    linebreak(user, [input |-> _stdin, _path |-> _path, cwd |-> cwd,
                     style |-> style, thrown |-> FALSE])

\* The argument of the completed line when it begins with `echo`.
EchoArg ==
    IF /\ LineCompleted
       /\ Len(LineText) >= 4
       /\ SubSeq(LineText, 1, 4) = "echo"
    THEN trim(SubSeq(LineText, 5, Len(LineText))) ELSE ""

\* C23: echo changes the text only when the completed line begins with
\* `echo` and has an argument; its result is then the text before the last
\* prompt, the argument, a line break and one new prompt, with nothing else
\* put in; in every other case it returns its input. Stated for a textarea
\* that holds what the user typed and no prompt yet.
C23_EchoTransform ==
    _stdin = typed =>
    \E t \in {EchoIn} : \E r \in {echo(user, t)} :
       \E prompt \in {getPrompt(user, _path)} :
          IF EchoArg # ""
          THEN \E sp \in {"", " "} :
                  r = [t EXCEPT !.input =
                         SubSeq(t.input, 1, Len(t.input) - Len(prompt) - 1)
                         \o EchoArg \o "<br />" \o prompt \o sp]
          ELSE r = t

\* The texts _parseArg is given in the run now due: the textarea as it is
\* and as linebreak renders it.
RenderedInputs == { _stdin, EchoIn.input }

\* The text ends at a line boundary: in a prompt and the space after it.
AtLineBoundary(input) ==
    \E tail \in { getPrompt(user, _path) \o " " } :
       /\ Len(input) >= Len(tail)
       /\ SubSeq(input, Len(input) - Len(tail) + 1, Len(input)) = tail

\* The most recently completed line: the last-but-one segment of the text,
\* line breaks removed, split by the current prompt.
CompletedLine(input) ==
    LET parts == Split(ReplaceGlobal(input, "<br />", ""), getPrompt(user, _path))
    IN  IF Len(parts) >= 2 THEN parts[Len(parts) - 1] ELSE ""

\* C24: _parseArg(input, c, false) is true when the input ends at a line
\* boundary and c is a substring of the most recently completed line, and
\* undefined otherwise; in the middle of a line it is undefined for every
\* name, "decoded" included.
C24_ParseArg ==
    \A input \in RenderedInputs :
       /\ \A c \in BuiltinWords :
             _parseArg(user, _path, input, c, FALSE) =
                IF AtLineBoundary(input) /\ Includes(CompletedLine(input), c)
                THEN True ELSE Undefined
       /\ ~AtLineBoundary(input) =>
             _parseArg(user, _path, input, "decoded", FALSE) = Undefined

\* C25: a keydown at which the textarea differs from the text it held at
\* the latest keydown that was let through is let through as well: it
\* schedules a run of the command chain.
C25_NoInputLost ==
    [][Trigger /\ _stdin # seenText => timers' = timers + 1]_vars

\* C26: when the server answers an append request the message is in the
\* store, stamped with the server's clock, and every fetch that starts later
\* reads it.
C26_AckedIsDurable ==
    [][ServerMsg =>
          \A req \in net \ net' :
             /\ \E i \in 1..Len(store') :
                   store'[i].id = req.id /\ store'[i].time = clock
             /\ req.id \in Ids(find(store', FetchDepth))]_vars

\* C27: the path changes only in a run whose cd took effect, which appends
\* "/" and a segment to it; typing, ignored keydowns, the other commands,
\* clear() and the Refresher leave it alone, and it always is the initial
\* path, alone or with "/segment" parts after it.
C27_PathOnlyByCd ==
    /\ [][_path' # _path =>
             /\ Run
             /\ cwd'
             /\ Len(_path') > Len(_path) + 1
             /\ SubSeq(_path', 1, Len(_path) + 1) = _path \o "/"]_vars
    /\ [](/\ Len(_path) >= Len(DefaultPath)
          /\ SubSeq(_path, 1, Len(DefaultPath)) = DefaultPath
          /\ \/ _path = DefaultPath
             \/ Char(_path, Len(DefaultPath) + 1) = "/")

\* Two cds have taken effect, X has been clicked and the Refresher has a
\* fetch under way.
C27_Witness ==
    /\ _path = DefaultPath \o "/a/b"
    /\ ops > 0
    /\ _stdout = getPrompt(user, _path)
    /\ Outstanding > 0

====
